---- MODULE Spec2Model ----
(***************************************************************************)
(* Model of src/core_metrics.py: BudgetTracker (plan vs. actual spend)    *)
(* and TimelineTracker (planned vs. actual completion date).              *)
(*                                                                         *)
(* Time is counted in clock ticks; one calendar day is DayLen ticks, so    *)
(* that two instants can differ by less than a whole day.  Amounts are     *)
(* integers (monetary units); the quotient of get_budget_utilization is    *)
(* kept exact as a reduced fraction.                                       *)
(***************************************************************************)
EXTENDS Integers, Sequences, FiniteSets, TLC

\* ---------------------------------------------------------------- bounds
MaxTx == 2          \* add_expense calls explored per tracker
MaxAmount == 1      \* amounts range over MinAmount..MaxAmount
MaxNow == 4         \* the wall clock runs over 0..MaxNow
DayLen == 2         \* ticks per calendar day

MinAmount == 0 - 1
Amounts == MinAmount..MaxAmount
PlannedBudgets == {0, 3}
Categories == {"R&D", "IT"}
Descriptions == {"", "servers"}
Dates == 0..MaxNow
PlannedEndDates == {2, 3}

\* Python's None, for an unset actual_end_date or an omitted argument.
None == 0 - 1

VARIABLES
    now,                \* datetime.now(), in ticks
    planned_budget,     \* BudgetTracker.planned_budget
    actual_spent,       \* BudgetTracker.actual_spent
    transactions,       \* BudgetTracker.transactions
    calls,              \* history: the arguments of every add_expense call, in order
    planned_end_date,   \* TimelineTracker.planned_end_date
    actual_end_date,    \* TimelineTracker.actual_end_date
    first_end_date,     \* history: the value the first mark_completed call stored
    ret                 \* the last call: its name, arguments, result and exception

vars == <<now, planned_budget, actual_spent, transactions, calls,
          planned_end_date, actual_end_date, first_end_date, ret>>

budgetVars == <<planned_budget, actual_spent, transactions, calls>>
timelineVars == <<planned_end_date, actual_end_date, first_end_date>>

\* ------------------------------------------------------------ arithmetic
Abs(x) == IF x < 0 THEN 0 - x ELSE x

RECURSIVE Gcd(_, _)
Gcd(a, b) == IF b = 0 THEN a ELSE Gcd(b, a % b)

\* An exact quotient n/d (d # 0) as a reduced fraction with positive denominator.
Frac(n, d) ==
    LET g == Gcd(Abs(n), Abs(d))
        s == IF d < 0 THEN 0 - 1 ELSE 1
    IN  [num |-> (s * n) \div g, den |-> (s * d) \div g]

\* Python's a / b: raises ZeroDivisionError when b is 0.
TrueDiv(a, b) ==
    IF b = 0 THEN [exc |-> "ZeroDivisionError", val |-> Frac(0, 1)]
    ELSE [exc |-> "None", val |-> Frac(a, b)]

\* Python's q * k for a quotient q; an exception in q propagates.
Times(q, k) ==
    IF q.exc # "None" THEN q
    ELSE [exc |-> "None", val |-> Frac(q.val.num * k, q.val.den)]

RECURSIVE SumAmounts(_)
SumAmounts(s) == IF s = <<>> THEN 0 ELSE SumAmounts(SubSeq(s, 1, Len(s) - 1)) + s[Len(s)].amount

\* Result record of a call that returns normally.
Return(op, args, val) == [op |-> op, args |-> args, val |-> val, exc |-> "None"]

\* ---------------------------------------------------------- BudgetTracker
BudgetInit ==
    /\ planned_budget \in PlannedBudgets
    /\ actual_spent = 0
    /\ transactions = <<>>
    /\ calls = <<>>

add_expense_overwrite(amount, category, description) ==
    /\ Len(transactions) < MaxTx
    /\ actual_spent' = amount
    /\ transactions' = Append(transactions,
            [date |-> now, amount |-> amount,
             category |-> category, description |-> description])
    /\ calls' = Append(calls, <<amount, category, description>>)
    /\ ret' = Return("add_expense", <<amount, category, description>>, None)
    /\ UNCHANGED <<now, planned_budget, timelineVars>>

add_expense_prepend(amount, category, description) ==
    /\ Len(transactions) < MaxTx
    /\ actual_spent' = actual_spent + amount
    /\ transactions' = <<[date |-> now, amount |-> amount,
             category |-> category, description |-> description]>> \o transactions
    /\ calls' = Append(calls, <<amount, category, description>>)
    /\ ret' = Return("add_expense", <<amount, category, description>>, None)
    /\ UNCHANGED <<now, planned_budget, timelineVars>>

add_expense_abs(amount, category, description) ==
    /\ Len(transactions) < MaxTx
    /\ actual_spent' = actual_spent + Abs(amount)
    /\ transactions' = Append(transactions,
            [date |-> now, amount |-> amount,
             category |-> category, description |-> description])
    /\ calls' = Append(calls, <<amount, category, description>>)
    /\ ret' = Return("add_expense", <<amount, category, description>>, None)
    /\ UNCHANGED <<now, planned_budget, timelineVars>>

add_expense(amount, category, description) ==
    /\ Len(transactions) < MaxTx
    /\ actual_spent' = actual_spent + amount
    /\ transactions' = Append(transactions,
            [date |-> now, amount |-> amount,
             category |-> category, description |-> description])
    /\ calls' = Append(calls, <<amount, category, description>>)
    /\ ret' = Return("add_expense", <<amount, category, description>>, None)
    /\ UNCHANGED <<now, planned_budget, timelineVars>>

AddExpense ==
    \E amount \in Amounts, category \in Categories, description \in Descriptions :
        add_expense(amount, category, description)

get_budget_variance_swapped == planned_budget - actual_spent

get_budget_variance == actual_spent - planned_budget

GetBudgetVariance ==
    /\ ret' = Return("get_budget_variance", <<>>, get_budget_variance)
    /\ UNCHANGED <<now, budgetVars, timelineVars>>

get_budget_utilization_unguarded ==
    Times(TrueDiv(actual_spent, planned_budget), 100)

get_budget_utilization ==
    IF planned_budget = 0
    THEN [exc |-> "None", val |-> Frac(0, 1)]
    ELSE Times(TrueDiv(actual_spent, planned_budget), 100)

GetBudgetUtilization ==
    /\ ret' = [op |-> "get_budget_utilization", args |-> <<>>,
               val |-> get_budget_utilization.val,
               exc |-> get_budget_utilization.exc]
    /\ UNCHANGED <<now, budgetVars, timelineVars>>

\* -------------------------------------------------------- TimelineTracker
TimelineInit ==
    /\ planned_end_date \in PlannedEndDates
    /\ actual_end_date = None
    /\ first_end_date = None

\* Python's `x or y` on an optional datetime: every datetime is truthy, None is not.
Or(x, y) == IF x # None THEN x ELSE y

mark_completed_no_default(completion_date) ==
    /\ actual_end_date' = completion_date
    /\ first_end_date' = Or(first_end_date, actual_end_date')
    /\ ret' = Return("mark_completed", <<completion_date>>, None)
    /\ UNCHANGED <<now, budgetVars, planned_end_date>>

mark_completed_once(completion_date) ==
    /\ actual_end_date' = IF actual_end_date = None
                          THEN Or(completion_date, now) ELSE actual_end_date
    /\ first_end_date' = Or(first_end_date, actual_end_date')
    /\ ret' = Return("mark_completed", <<completion_date>>, None)
    /\ UNCHANGED <<now, budgetVars, planned_end_date>>

mark_completed(completion_date) ==
    /\ actual_end_date' = Or(completion_date, now)
    /\ first_end_date' = Or(first_end_date, actual_end_date')
    /\ ret' = Return("mark_completed", <<completion_date>>, None)
    /\ UNCHANGED <<now, budgetVars, planned_end_date>>

MarkCompleted ==
    \E completion_date \in Dates \cup {None} : mark_completed(completion_date)

is_delayed_clock == now > planned_end_date

is_delayed ==
    IF actual_end_date = None
    THEN now > planned_end_date
    ELSE actual_end_date > planned_end_date

IsDelayed ==
    /\ ret' = Return("is_delayed", <<>>, is_delayed)
    /\ UNCHANGED <<now, budgetVars, timelineVars>>

days_truncated(delta) ==
    IF delta < 0 THEN 0 - ((0 - delta) \div DayLen) ELSE delta \div DayLen

\* timedelta.days: a timedelta is normalised to days plus a non-negative
\* remainder, so .days is the floor of the difference in whole days.
days(delta) == delta \div DayLen

get_delay_days_swapped ==
    IF actual_end_date = None
    THEN days(planned_end_date - now)
    ELSE days(planned_end_date - actual_end_date)

get_delay_days ==
    IF actual_end_date = None
    THEN days(now - planned_end_date)
    ELSE days(actual_end_date - planned_end_date)

GetDelayDays ==
    /\ ret' = Return("get_delay_days", <<>>, get_delay_days)
    /\ UNCHANGED <<now, budgetVars, timelineVars>>

\* TimelineTracker.__repr__, as the parts it renders: the status word and,
\* only when is_delayed() holds, the number of days of delay.
timeline_repr ==
    [status |-> IF actual_end_date = None THEN "in progress" ELSE "completed",
     delay  |-> IF is_delayed THEN <<get_delay_days>> ELSE <<>>]

TimelineRepr ==
    /\ ret' = Return("__repr__", <<>>, timeline_repr)
    /\ UNCHANGED <<now, budgetVars, timelineVars>>

\* ------------------------------------------------------------ wall clock
Tick ==
    /\ now < MaxNow
    /\ now' = now + 1
    /\ UNCHANGED <<budgetVars, timelineVars, ret>>

\* -------------------------------------------------------- specifications
\* Each tracker is explored on its own (the two classes share nothing but the
\* wall clock); the other tracker stays as constructed.
InitBudget ==
    /\ now = 0
    /\ BudgetInit
    /\ TimelineInit
    /\ planned_end_date = 3
    /\ ret = Return("__init__", <<>>, None)

InitTimeline ==
    /\ now = 0
    /\ BudgetInit
    /\ planned_budget = 0
    /\ TimelineInit
    /\ ret = Return("__init__", <<>>, None)

BudgetNext == AddExpense \/ GetBudgetVariance \/ GetBudgetUtilization \/ Tick

TimelineNext == MarkCompleted \/ IsDelayed \/ GetDelayDays \/ TimelineRepr \/ Tick

SpecBudget == InitBudget /\ [][BudgetNext]_vars

SpecTimeline == InitTimeline /\ [][TimelineNext]_vars

\* ---------------------------------------------------------------- claims
\* A step is a call of operation op when it leaves the clock alone and records
\* op as the last call (Tick changes only the clock).
IsCallOf(op) == now' = now /\ ret'.op = op

\* C1: in every reachable state of a BudgetTracker, actual_spent equals the
\* sum of the amount fields of all records in transactions.
C1_SpentIsSumOfAmounts == actual_spent = SumAmounts(transactions)

C1_Witness ==
    /\ Len(transactions) >= 2
    /\ \E i \in 1..Len(transactions) : transactions[i].amount < 0
    /\ \E i \in 1..Len(transactions) : transactions[i].amount > 0
    /\ transactions[1].amount # 0

\* C2: transactions is append-only and order-preserving: after n add_expense
\* calls its length is n, the i-th record carries the amount, category and
\* description of the i-th call, and each call leaves every earlier record
\* unchanged and in place.
C2_AppendOnlyInCallOrder ==
    /\ [](/\ Len(transactions) = Len(calls)
          /\ \A i \in 1..Len(calls) :
                /\ transactions[i].amount = calls[i][1]
                /\ transactions[i].category = calls[i][2]
                /\ transactions[i].description = calls[i][3])
    /\ [][/\ Len(transactions') >= Len(transactions)
          /\ SubSeq(transactions', 1, Len(transactions)) = transactions]_vars

C2_Witness ==
    /\ Len(transactions) >= 2
    /\ transactions[1].amount # transactions[2].amount
    /\ transactions[1].category # transactions[2].category
    /\ transactions[1].description # transactions[2].description

\* C3 (as claimed): actual_spent starts at 0, never decreases over an
\* add_expense call, and no other operation changes it.
C3_MonotonicallyNonDecreasing ==
    /\ actual_spent = 0
    /\ [][/\ actual_spent' >= actual_spent
          /\ (actual_spent' # actual_spent => IsCallOf("add_expense"))]_vars

\* C3 (amended): actual_spent starts at 0; an add_expense call with a
\* non-negative amount leaves it greater than or equal to its value before,
\* a call with a negative amount lowers it; no other operation changes it.
C3_NonDecreasingForNonNegativeAmounts ==
    /\ actual_spent = 0
    /\ [][/\ (actual_spent' # actual_spent => IsCallOf("add_expense"))
          /\ (IsCallOf("add_expense") /\ ret'.args[1] >= 0
                => actual_spent' >= actual_spent)
          /\ (IsCallOf("add_expense") /\ ret'.args[1] < 0
                => actual_spent' < actual_spent)]_vars

C3_Witness ==
    /\ ret.op = "add_expense"
    /\ ret.args[1] < 0
    /\ actual_spent < 0

\* C4: get_budget_utilization never fails: with planned_budget 0 it returns 0
\* whatever actual_spent is, otherwise (actual_spent / planned_budget) * 100.
C4_UtilizationGuarded ==
    ret.op = "get_budget_utilization" =>
        /\ ret.exc = "None"
        /\ ret.val.den > 0
        /\ (planned_budget = 0 => ret.val.num = 0)
        /\ (planned_budget # 0 =>
                ret.val.num * planned_budget = ret.val.den * actual_spent * 100)

C4_Witness ==
    /\ ret.op = "get_budget_utilization"
    /\ planned_budget = 0
    /\ actual_spent < 0

\* C5: get_budget_variance returns actual_spent - planned_budget, positive
\* exactly when spend exceeds the plan and negative exactly when it is below;
\* the call changes neither actual_spent nor transactions.
C5_VarianceIsSpentMinusPlan ==
    /\ [](ret.op = "get_budget_variance" =>
            /\ ret.val = actual_spent - planned_budget
            /\ (ret.val > 0 <=> actual_spent > planned_budget)
            /\ (ret.val < 0 <=> actual_spent < planned_budget))
    /\ [][IsCallOf("get_budget_variance") =>
            /\ actual_spent' = actual_spent
            /\ transactions' = transactions]_vars

C5_Witness ==
    /\ ret.op = "get_budget_variance"
    /\ ret.val > 0
    /\ Len(transactions) >= 1

\* C6: a TimelineTracker starts in progress, becomes completed only through
\* mark_completed, is completed after any mark_completed call (with or
\* without a date), and never returns to in progress.
C6_CompletedOnlyByMarkAndForever ==
    /\ actual_end_date = None
    /\ [](ret.op = "mark_completed" => actual_end_date # None)
    /\ [][/\ (actual_end_date = None /\ actual_end_date' # None
                => IsCallOf("mark_completed"))
          /\ (actual_end_date # None => actual_end_date' # None)]_vars

C6_Witness ==
    /\ ret.op = "mark_completed"
    /\ ret.args[1] = None
    /\ actual_end_date # None

\* C7 (as claimed): actual_end_date is set at most once: the value stored by
\* the first mark_completed call is the value held in every later state.
C7_SetAtMostOnce ==
    first_end_date # None => actual_end_date = first_end_date

\* C7 (amended): actual_end_date can be set more than once: every
\* mark_completed call overwrites it with that call's date (the supplied
\* date, or the current time when none is supplied), so it holds the value
\* stored by the most recent call; only mark_completed changes it.
C7_LastCallWins ==
    [][/\ (IsCallOf("mark_completed") =>
                actual_end_date' = IF ret'.args[1] # None
                                   THEN ret'.args[1] ELSE now)
       /\ (actual_end_date' # actual_end_date => IsCallOf("mark_completed"))]_vars

C7_Witness ==
    /\ ret.op = "mark_completed"
    /\ first_end_date # None
    /\ actual_end_date # first_end_date
    /\ actual_end_date = Or(ret.args[1], now)

\* C8: after mark_completed(d), is_delayed() equals (d > planned_end_date) and
\* keeps that value however far the clock advances while no further
\* operation is called.
C8_DelayFixedAfterCompletion ==
    /\ [](ret.op = "mark_completed" /\ ret.args[1] # None =>
            is_delayed = (ret.args[1] > planned_end_date))
    /\ [][/\ (IsCallOf("is_delayed") /\ actual_end_date # None =>
                ret'.val = (actual_end_date > planned_end_date))
          /\ (actual_end_date # None /\ now' # now =>
                is_delayed' = is_delayed)]_vars

C8_Witness ==
    /\ ret.op = "mark_completed"
    /\ ret.args[1] # None
    /\ ret.args[1] <= planned_end_date
    /\ now > planned_end_date
    /\ ~is_delayed

\* C9: after mark_completed(d), get_delay_days() is the whole-day difference
\* d - planned_end_date (rounded down), and is negative whenever d is
\* strictly earlier than planned_end_date, even by less than one day.
C9_DelayDaysWholeDayDifference ==
    /\ [](ret.op = "mark_completed" /\ ret.args[1] # None =>
            LET delta == ret.args[1] - planned_end_date
                n == get_delay_days
            IN  /\ n * DayLen <= delta
                /\ delta < (n + 1) * DayLen
                /\ (delta < 0 => n < 0))
    /\ [][IsCallOf("get_delay_days") /\ actual_end_date # None =>
            /\ ret'.val * DayLen <= actual_end_date - planned_end_date
            /\ actual_end_date - planned_end_date < (ret'.val + 1) * DayLen
            /\ (actual_end_date < planned_end_date => ret'.val < 0)]_vars

C9_Witness ==
    /\ ret.op = "get_delay_days"
    /\ actual_end_date # None
    /\ actual_end_date < planned_end_date
    /\ planned_end_date - actual_end_date < DayLen
    /\ ret.val = 0 - 1

\* C10: at one clock instant is_delayed and get_delay_days agree:
\* is_delayed() implies get_delay_days() >= 0, its negation implies
\* get_delay_days() <= 0; the rendering shows a delay only of 0 days or more
\* (0 for an overrun of less than a day).
C10_DelayedAgreesWithDelayDays ==
    /\ (is_delayed => get_delay_days >= 0)
    /\ (~is_delayed => get_delay_days <= 0)
    /\ (ret.op = "__repr__" /\ ret.val.delay # <<>> => ret.val.delay[1] >= 0)

C10_Witness ==
    /\ ret.op = "__repr__"
    /\ ret.val.delay = <<0>>
    /\ is_delayed
    /\ get_delay_days = 0

====
